---- MODULE Spec2Model ----
(***************************************************************************)
(* FedProx local training step (secretflow, tensorflow backend).           *)
(*                                                                         *)
(* The state is one FedProx worker: its attached model (trainable and      *)
(* non-trainable variables), the optimizer's step counter, the metric      *)
(* accumulator of the compiled metrics, the two log fields, the callback    *)
(* list and the batch iterator self.train_set.  train_step is modelled     *)
(* statement by statement: entry (lines 59-66), one action per loop        *)
(* iteration (lines 68-102) and the part after the loop (lines 103-116).   *)
(*                                                                         *)
(* Numbers are integers.  A tensor is a one-dimensional sequence of        *)
(* integers, a parameter set is a sequence of tensors.  A norm is kept as  *)
(* its square (the exact value is the square root of that integer), so     *)
(* tf.square of a norm is exact.  mu is drawn from even numbers so that    *)
(* mu / 2 is exact.                                                        *)
(***************************************************************************)
EXTENDS Integers, Sequences, FiniteSets, TLC

\* ------------------------------------------------------------------ bounds
\* longest batch iterator handed to the worker
MaxBatches == 2
\* largest train_steps argument
MaxSteps == 2
\* largest cur_steps argument
MaxCurSteps == 1
\* most tensors in a parameter set handed to w_norm
MaxTensors == 2
\* longest tensor handed to w_norm
MaxDim == 3

VARIABLES
    model,        \* self.model: [attached, trainable, non_trainable]
    optimizer,    \* self.model.optimizer: number of apply_gradients so far
    metric,       \* self.model.compiled_metrics: running [total, count]
    train_set,    \* self.train_set: the batches the iterator still yields
    logs,         \* self.logs
    epoch_logs,   \* self.epoch_logs
    callbacks,    \* self.callbacks: the hook call of the call in progress
    pc,           \* position of train_step: "idle", "loop" or "done"
    call,         \* arguments of the call in progress; call.weights is the
                  \* list object the caller passed
    num_sample,   \* local num_sample
    i,            \* iterations of the for loop completed
    loss,         \* local loss of the last iteration: [base, proximal, total]
    result,       \* outcome of the call as the caller sees it
    run,          \* bookkeeping of the call in progress, read by the properties
    hist,         \* bookkeeping of the worker's life, read by the properties
    norm,         \* a direct call of w_norm: its two arguments and its outcome
    cache         \* the dataset cache directory and the last dataset call

trainVars == <<model, optimizer, metric, train_set, logs, epoch_logs, callbacks,
               pc, call, num_sample, i, loss, result, run, hist>>

vars == <<trainVars, norm, cache>>

\* an optional parameter set: Python's None, or a list of arrays
NoWeights == [none |-> TRUE, val |-> <<>>]

Some(w) == [none |-> FALSE, val |-> w]

\* ------------------------------------------------------------ arithmetic
RECURSIVE SumSeq(_)
SumSeq(s) == IF s = <<>> THEN 0 ELSE Head(s) + SumSeq(Tail(s))

RECURSIVE SumAll(_)
SumAll(ts) == IF ts = <<>> THEN 0 ELSE SumSeq(Head(ts)) + SumAll(Tail(ts))

Abs(n) == IF n < 0 THEN -n ELSE n

Max(a, b) == IF a < b THEN b ELSE a

RECURSIVE Gcd(_, _)
Gcd(a, b) == IF b = 0 THEN a ELSE Gcd(b, a % b)

\* shape signature of a parameter set: the length of each tensor
ShapeOf(ws) == [k \in 1..Len(ws) |-> Len(ws[k])]

ZerosLike(ws) == [k \in 1..Len(ws) |-> [j \in 1..Len(ws[k]) |-> 0]]

\* ------------------------------------------------------------ w_norm
\* a - b of two tensors under numpy/tf broadcasting: equal lengths, or one
\* of them of length 1 stretched to the other
Broadcastable(a, b) == Len(a) = Len(b) \/ Len(a) = 1 \/ Len(b) = 1

At(t, j) == IF Len(t) = 1 THEN t[1] ELSE t[j]

Minus(a, b) == [j \in 1..Max(Len(a), Len(b)) |-> At(a, j) - At(b, j)]

SquaresOf(t) == [j \in 1..Len(t) |-> t[j] * t[j]]

\* tf.linalg.global_norm of a list of tensors, as its square
global_norm(ts) == SumAll([k \in 1..Len(ts) |-> SquaresOf(ts[k])])

\* FedProx.w_norm: tf.nest.map_structure raises when the two lists differ in
\* length, the subtraction raises when two tensors do not broadcast
w_norm(w1, w2) ==
    IF Len(w1) # Len(w2)
    THEN [ok |-> FALSE, error |-> "ValueError", sq |-> 0]
    ELSE IF \E k \in 1..Len(w1) : ~Broadcastable(w1[k], w2[k])
    THEN [ok |-> FALSE, error |-> "InvalidArgumentError", sq |-> 0]
    ELSE [ok |-> TRUE, error |-> "",
          sq |-> global_norm([k \in 1..Len(w1) |-> Minus(w1[k], w2[k])])]

\* tf.square of a norm kept as its square
Square(n) == n.sq

\* ------------------------------------------------------------ batches
\* x of a batch: [dict, data]; an array holds its rows, an OrderedDict holds
\* its columns in order.  y and s_w hold one value per row.
ArrayBatch == << [dict |-> FALSE, data |-> << <<1>> >>], <<1>> >>

DictBatch == << [dict |-> TRUE, data |-> << <<1, 0>> >>], <<0, 1>>, <<1, 2>> >>

BatchSet == {ArrayBatch, DictBatch}

RECURSIVE SeqsUpTo(_, _)
SeqsUpTo(S, n) ==
    IF n = 0 THEN {<<>>}
    ELSE LET shorter == SeqsUpTo(S, n - 1)
         IN  shorter \cup {Append(s, b) : s \in shorter, b \in S}

\* tf.stack(list(x.values()), axis=1): the columns become the rows
Stack(cols) ==
    [r \in 1..Len(cols[1]) |-> [c \in 1..Len(cols) |-> cols[c][r]]]

\* lines 70-76: unpack the tuple and normalise x
Unpack(iter_data) ==
    LET x == iter_data[1]
    IN  [x   |-> IF x.dict THEN Stack(x.data) ELSE x.data,
         y   |-> iter_data[2],
         weighted |-> Len(iter_data) = 3,
         s_w |-> IF Len(iter_data) = 3 THEN iter_data[3] ELSE <<>>]

RowCount_Columns(x) == Len(x[1])

\* x.shape[0]
RowCount(x) == Len(x)

\* ------------------------------------------------------------ the model
\* self.model.get_weights(): trainable then non-trainable, as fresh arrays
get_weights(m) == m.trainable \o m.non_trainable

\* self.model.set_weights(w): raises unless w has the model's shapes
CanSetWeights(m, w) == ShapeOf(w) = ShapeOf(get_weights(m))

set_weights(m, w) ==
    [m EXCEPT !.trainable = SubSeq(w, 1, Len(m.trainable)),
              !.non_trainable = SubSeq(w, Len(m.trainable) + 1, Len(w))]

\* forward pass: one prediction per row
Predict(trainable, x) ==
    [r \in 1..Len(x) |-> SumAll(trainable) * SumSeq(x[r])]

\* sample_weight=None weighs every row by one
Weight(b, r) == IF b.weighted THEN b.s_w[r] ELSE 1

\* compiled_loss: weighted squared error over the rows
BaseLoss(b, y_pred) ==
    SumSeq([r \in 1..Len(b.y) |->
              Weight(b, r) * (y_pred[r] - b.y[r]) * (y_pred[r] - b.y[r])])

\* gradient of the base loss with respect to every trainable element
BaseGrad(b, y_pred) ==
    SumSeq([r \in 1..Len(b.y) |->
              2 * Weight(b, r) * (y_pred[r] - b.y[r]) * SumSeq(b.x[r])])

\* ------------------------------------------------------ one loop iteration
InRange_AtLeastOnce(k, n) == k < n \/ k = 0

\* range(train_steps): the loop body runs while fewer than n iterations ran
InRange(k, n) == k < n

\* next(self.train_set) yields the first remaining batch and leaves the rest
NextBatch(source) == Head(source)

Rest_ReadAhead(source) ==
    IF Len(source) >= 2 THEN Tail(Tail(source)) ELSE Tail(source)

Rest(source) == Tail(source)

\* lines 90-96: the proximal term, computed only when weights is not None,
\* between the weights argument and the model's trainable variables
Proximal(weights, trainable) ==
    IF weights.none
    THEN [ok |-> TRUE, error |-> "", sq |-> 0]
    ELSE w_norm(weights.val, trainable)

\* lines 83-96: loss = compiled loss, plus mu / 2 * proximal
StepLoss(weights, mu, trainable, b) ==
    LET base == BaseLoss(b, Predict(trainable, b.x))
        n    == Proximal(weights, trainable)
    IN  [base     |-> base,
         proximal |-> Square(n),
         total    |-> IF weights.none THEN base
                      ELSE base + (mu \div 2) * Square(n)]

Gradients_NoneAsZero(weights, mu, trainable, b) ==
    LET g == BaseGrad(b, Predict(trainable, b.x))
    IN  [k \in 1..Len(trainable) |->
           [j \in 1..Len(trainable[k]) |->
              IF weights.none THEN g + mu * trainable[k][j]
              ELSE g + mu * (trainable[k][j] - At(weights.val[k], j))]]

\* line 99: tape.gradient(loss, trainable_vars); the proximal term is inside
\* the taped loss, d/dw (mu / 2 * ||a - w||^2) = mu * (w - a)
Gradients(weights, mu, trainable, b) ==
    LET g == BaseGrad(b, Predict(trainable, b.x))
    IN  [k \in 1..Len(trainable) |->
           [j \in 1..Len(trainable[k]) |->
              IF weights.none THEN g
              ELSE g + mu * (trainable[k][j] - At(weights.val[k], j))]]

\* line 100: optimizer.apply_gradients, plain gradient descent of rate one
apply_gradients(trainable, grads) ==
    [k \in 1..Len(trainable) |->
       [j \in 1..Len(trainable[k]) |-> trainable[k][j] - grads[k][j]]]

\* the trainable variables one iteration leaves behind
StepUpdate(weights, mu, trainable, b) ==
    apply_gradients(trainable, Gradients(weights, mu, trainable, b))

AnchorAfterStep_Aliased(weights, trainable) ==
    IF weights.none THEN weights ELSE Some(trainable)

\* the weights argument as the loop sees it after an iteration: the caller's
\* list is neither rebound nor written by set_weights or w_norm
AnchorAfterStep(weights, trainable) == weights

\* ------------------------------------------------------------ metrics
ZeroMetric == [total |-> 0, count |-> 0]

\* line 102: compiled_metrics.update_state(y, y_pred), a mean absolute error
update_state(m, y, y_pred) ==
    [total |-> m.total + SumSeq([r \in 1..Len(y) |-> Abs(y[r] - y_pred[r])]),
     count |-> m.count + Len(y)]

\* m.result(): total / count as a reduced fraction, 0 when nothing was seen
MetricResult(m) ==
    IF m.count = 0 THEN <<0, 1>>
    ELSE LET g == Gcd(m.total, m.count)
         IN  <<m.total \div g, m.count \div g>>

MetricAtEntry_Reset(m) == ZeroMetric

\* the accumulator train_step starts from: lines 59-67 reset nothing
MetricAtEntry(m) == m

NoLogs == [none |-> TRUE, mae |-> <<0, 1>>]

\* lines 103-104: logs[m.name] = m.result().numpy()
Snapshot(m) == [none |-> FALSE, mae |-> MetricResult(m)]

\* line 106: self.logs = logs
LogsAfter(old_logs, snapshot) == snapshot

EpochLogsAfter_KeepPrevious(old_logs, new_logs) == old_logs

\* line 107: self.epoch_logs = copy.deepcopy(self.logs)
EpochLogsAfter(old_logs, new_logs) == new_logs

\* ------------------------------------------------------------ the DP hook
\* dp_strategy: None, a strategy without model_gdp, or one whose model_gdp
\* zeroes the weights, adds noise to them, or raises
DpSet == {"None", "no_gdp", "zero", "noise", "fail"}

HasHook(dp) == dp \in {"zero", "noise", "fail"}

NoiseSet == {-1, 1}

AddNoise(ws, n) == [k \in 1..Len(ws) |-> [j \in 1..Len(ws[k]) |-> ws[k][j] + n]]

ApplyDp_Fallback(dp, ws) ==
    CASE dp = "zero"  -> {[raised |-> FALSE, calls |-> 1, weights |-> ZerosLike(ws)]}
      [] dp = "noise" -> {[raised |-> FALSE, calls |-> 1, weights |-> AddNoise(ws, n)] :
                             n \in NoiseSet}
      [] dp = "fail"  -> {[raised |-> FALSE, calls |-> 1, weights |-> ws]}
      [] OTHER        -> {[raised |-> FALSE, calls |-> 0, weights |-> ws]}

\* lines 109-116: every outcome of the part after the metrics.  calls counts
\* the invocations of model_gdp
ApplyDp(dp, ws) ==
    CASE dp = "zero"  -> {[raised |-> FALSE, calls |-> 1, weights |-> ZerosLike(ws)]}
      [] dp = "noise" -> {[raised |-> FALSE, calls |-> 1, weights |-> AddNoise(ws, n)] :
                             n \in NoiseSet}
      [] dp = "fail"  -> {[raised |-> TRUE, calls |-> 1, weights |-> <<>>]}
      [] OTHER        -> {[raised |-> FALSE, calls |-> 0, weights |-> ws]}

LiveAfterReturn_Overwrite(m, o) ==
    IF o.raised \/ o.calls = 0 THEN m
    ELSE [m EXCEPT !.trainable = SubSeq(o.weights, 1, Len(m.trainable)),
                   !.non_trainable = SubSeq(o.weights, Len(m.trainable) + 1,
                                            Len(o.weights))]

\* the live model after the hook ran: model_weights is a local, the hook's
\* output is returned and never passed to set_weights
LiveAfterReturn(m, o) == m

\* ------------------------------------------------------------ results
NoResult == [status |-> "none", error |-> "", weights |-> <<>>, num_sample |-> 0]

Raised(e) == [status |-> "error", error |-> e, weights |-> <<>>, num_sample |-> 0]

Returned(ws, n) == [status |-> "ok", error |-> "", weights |-> ws, num_sample |-> n]

OnStarved_Partial(m, n) == Returned(m.trainable \o m.non_trainable, n)

\* what train_step does when next() raises StopIteration: nothing catches it
OnStarved(m, n) == Raised("StopIteration")

NoLoss == [base |-> 0, proximal |-> 0, total |-> 0]

\* ------------------------------------------------------------ inputs
Trainable0 == << <<1>>, <<0>> >>

\* a worker without a model, one whose model has only trainable variables,
\* and one whose model also has a non-trainable variable
ModelSet ==
    { [attached |-> FALSE, trainable |-> <<>>, non_trainable |-> <<>>],
      [attached |-> TRUE, trainable |-> Trainable0, non_trainable |-> <<>>],
      [attached |-> TRUE, trainable |-> Trainable0, non_trainable |-> << <<0>> >>] }

\* each tensor filled with its own index
IndexLike(ws) == [k \in 1..Len(ws) |-> [j \in 1..Len(ws[k]) |-> k]]

\* the weights a caller passes to a worker: None, a parameter set of the
\* model's shapes, and one of another shape
WeightsSet(m) ==
    { NoWeights, Some(IndexLike(get_weights(m))), Some(<< <<0, 0>> >>) }

MuSet == {0, 2}

Args(m) == [weights : WeightsSet(m),
            cur_steps : 0..MaxCurSteps,
            train_steps : 0..MaxSteps,
            dp_strategy : DpSet,
            mu : MuSet]

NoCall == [weights |-> NoWeights, cur_steps |-> 0, train_steps |-> 0,
           dp_strategy |-> "None", mu |-> 0]

NoCallback == [hook |-> "none", step |-> 0]

\* row count of a batch as the source produced it: one label per row
Rows(iter_data) == Len(iter_data[2])

NoRun == [pulled |-> <<>>, updates |-> 0, hookCalls |-> 0, hookOut |-> <<>>,
          preHook |-> <<>>, anchor |-> NoWeights, before |-> <<>>,
          starved |-> FALSE,
          entry |-> [trainable |-> <<>>, optimizer |-> 0, logs |-> NoLogs,
                     epoch_logs |-> NoLogs, metric |-> ZeroMetric,
                     source |-> <<>>],
          metric |-> ZeroMetric]

\* no direct call of w_norm
NoNorm == [w1 |-> <<>>, w2 |-> <<>>, called |-> FALSE,
           out |-> [ok |-> FALSE, error |-> "", sq |-> 0]]

\* no file in the cache directory and no dataset call made
NoCache ==
    [files |-> [f \in {"iris.csv", "linear.csv", "local.csv"} |-> "absent"],
     got |-> [called |-> FALSE, dataset |-> [filename |-> "", url |-> "", sha256 |-> ""],
              before |-> "absent", response |-> [raised |-> FALSE, content |-> "absent"],
              error |-> "", path |-> "", downloads |-> 0, removed |-> FALSE,
              previous |-> ""]]

Init ==
    /\ model \in ModelSet
    /\ optimizer = 0
    /\ metric = ZeroMetric
    /\ train_set \in SeqsUpTo(BatchSet, MaxBatches)
    /\ logs = NoLogs
    /\ epoch_logs = NoLogs
    /\ callbacks = NoCallback
    /\ pc = "idle"
    /\ call = NoCall
    /\ num_sample = 0
    /\ i = 0
    /\ loss = NoLoss
    /\ result = NoResult
    /\ run = NoRun
    /\ hist = [plain |-> model.trainable, metric |-> ZeroMetric]
    /\ norm = NoNorm
    /\ cache = NoCache

\* ------------------------------------------------------------ train_step
\* line 59: the assertion fails when no model is attached
CallNoModel(a) ==
    /\ UNCHANGED <<norm, cache>>
    /\ pc = "idle"
    /\ ~model.attached
    /\ call' = a
    /\ result' = Raised("AssertionError")
    /\ pc' = "done"
    /\ UNCHANGED <<model, optimizer, metric, train_set, logs, epoch_logs,
                   callbacks, num_sample, i, loss, run, hist>>

\* lines 60-61: set_weights raises on weights of another shape
CallBadWeights(a) ==
    /\ UNCHANGED <<norm, cache>>
    /\ pc = "idle"
    /\ model.attached
    /\ ~a.weights.none
    /\ ~CanSetWeights(model, a.weights.val)
    /\ call' = a
    /\ result' = Raised("ValueError")
    /\ pc' = "done"
    /\ UNCHANGED <<model, optimizer, metric, train_set, logs, epoch_logs,
                   callbacks, num_sample, i, loss, run, hist>>

\* lines 59-66: entry of train_step up to the loop
Begin(a) ==
    /\ UNCHANGED <<norm, cache>>
    /\ pc = "idle"
    /\ model.attached
    /\ a.weights.none \/ CanSetWeights(model, a.weights.val)
    /\ call' = a
    /\ model' = IF a.weights.none THEN model ELSE set_weights(model, a.weights.val)
    /\ num_sample' = 0
    /\ i' = 0
    /\ loss' = NoLoss
    /\ metric' = MetricAtEntry(metric)
    /\ callbacks' = [hook |-> "on_train_batch_begin", step |-> a.cur_steps]
    /\ result' = NoResult
    /\ pc' = "loop"
    /\ run' = [NoRun EXCEPT
                 !.anchor = a.weights,
                 !.before = model'.trainable,
                 !.entry = [trainable |-> model'.trainable,
                            optimizer |-> optimizer, logs |-> logs,
                            epoch_logs |-> epoch_logs, metric |-> metric,
                            source |-> train_set]]
    /\ hist' = [hist EXCEPT
                  !.plain = IF a.weights.none THEN @
                            ELSE set_weights(model, a.weights.val).trainable]
    /\ UNCHANGED <<optimizer, train_set, logs, epoch_logs>>

\* lines 68-102: one iteration of the loop
LocalStep ==
    /\ UNCHANGED <<norm, cache>>
    /\ pc = "loop"
    /\ InRange(i, call.train_steps)
    /\ train_set # <<>>
    /\ Proximal(call.weights, model.trainable).ok
    /\ LET iter_data == NextBatch(train_set)
           b         == Unpack(iter_data)
           y_pred    == Predict(model.trainable, b.x)
           new       == StepUpdate(call.weights, call.mu, model.trainable, b)
       IN  /\ train_set' = Rest(train_set)
           /\ num_sample' = num_sample + RowCount(b.x)
           /\ loss' = StepLoss(call.weights, call.mu, model.trainable, b)
           /\ model' = [model EXCEPT !.trainable = new]
           /\ optimizer' = optimizer + 1
           /\ metric' = update_state(metric, b.y, y_pred)
           /\ call' = [call EXCEPT !.weights = AnchorAfterStep(call.weights, new)]
           /\ run' = [run EXCEPT
                        !.pulled = Append(@, Rows(iter_data)),
                        !.updates = @ + 1,
                        !.before = model.trainable,
                        !.metric = update_state(@, b.y, y_pred)]
           /\ hist' = [hist EXCEPT
                         !.plain = StepUpdate(run.anchor, call.mu, @, b),
                         !.metric = update_state(@, b.y, y_pred)]
    /\ i' = i + 1
    /\ UNCHANGED <<logs, epoch_logs, callbacks, pc, result>>

\* line 69: next() raises StopIteration on an exhausted iterator
StepStarved ==
    /\ UNCHANGED <<norm, cache>>
    /\ pc = "loop"
    /\ InRange(i, call.train_steps)
    /\ train_set = <<>>
    /\ result' = OnStarved(model, num_sample)
    /\ pc' = "done"
    /\ run' = [run EXCEPT !.starved = TRUE]
    /\ UNCHANGED <<model, optimizer, metric, train_set, logs, epoch_logs,
                   callbacks, call, num_sample, i, loss, hist>>

\* lines 69-93: the batch is pulled and counted, then w_norm raises
StepShapeError ==
    /\ UNCHANGED <<norm, cache>>
    /\ pc = "loop"
    /\ InRange(i, call.train_steps)
    /\ train_set # <<>>
    /\ ~Proximal(call.weights, model.trainable).ok
    /\ LET iter_data == NextBatch(train_set)
           b         == Unpack(iter_data)
       IN  /\ train_set' = Rest(train_set)
           /\ num_sample' = num_sample + RowCount(b.x)
           /\ run' = [run EXCEPT !.pulled = Append(@, Rows(iter_data))]
    /\ result' = Raised(Proximal(call.weights, model.trainable).error)
    /\ pc' = "done"
    /\ UNCHANGED <<model, optimizer, metric, logs, epoch_logs, callbacks,
                   call, i, loss, hist>>

\* lines 103-116: metrics into the logs, the DP hook, the return
Finalize ==
    /\ UNCHANGED <<norm, cache>>
    /\ pc = "loop"
    /\ ~InRange(i, call.train_steps)
    /\ logs' = LogsAfter(logs, Snapshot(metric))
    /\ epoch_logs' = EpochLogsAfter(logs, logs')
    /\ callbacks' = [hook |-> "on_train_batch_end",
                     step |-> call.cur_steps + call.train_steps]
    /\ \E o \in ApplyDp(call.dp_strategy, get_weights(model)) :
         /\ result' = IF o.raised THEN Raised("HookError")
                      ELSE Returned(o.weights, num_sample)
         /\ model' = LiveAfterReturn(model, o)
         /\ run' = [run EXCEPT !.hookCalls = o.calls,
                               !.hookOut = o.weights,
                               !.preHook = get_weights(model)]
    /\ pc' = "done"
    /\ UNCHANGED <<optimizer, metric, train_set, call, num_sample, i, loss, hist>>

\* the call is over: the caller has the result or the exception, and the
\* frame of train_step (arguments and locals) is gone
Return ==
    /\ UNCHANGED <<norm, cache>>
    /\ pc = "done"
    /\ pc' = "idle"
    /\ call' = NoCall
    /\ num_sample' = 0
    /\ i' = 0
    /\ loss' = NoLoss
    /\ result' = NoResult
    /\ callbacks' = NoCallback
    /\ run' = NoRun
    /\ UNCHANGED <<model, optimizer, metric, train_set, logs, epoch_logs, hist>>

Next ==
    \/ \E a \in Args(model) : CallNoModel(a)
    \/ \E a \in Args(model) : CallBadWeights(a)
    \/ \E a \in Args(model) : Begin(a)
    \/ LocalStep
    \/ StepStarved
    \/ StepShapeError
    \/ Finalize
    \/ Return

Spec == Init /\ [][Next]_vars

\* ------------------------------------------------------- w_norm on its own
\* a worker that only has w_norm called on it: train_step never runs
Quiet ==
    /\ model = [attached |-> TRUE, trainable |-> Trainable0, non_trainable |-> <<>>]
    /\ optimizer = 0
    /\ metric = ZeroMetric
    /\ train_set = <<>>
    /\ logs = NoLogs
    /\ epoch_logs = NoLogs
    /\ callbacks = NoCallback
    /\ pc = "idle"
    /\ call = NoCall
    /\ num_sample = 0
    /\ i = 0
    /\ loss = NoLoss
    /\ result = NoResult
    /\ run = NoRun
    /\ hist = [plain |-> Trainable0, metric |-> ZeroMetric]

\* tensors of 1..MaxDim elements, each 0 or 1
TensorSet == UNION {[1..n -> {0, 1}] : n \in 1..MaxDim}

\* parameter sets of 1..MaxTensors tensors
ParameterSets == UNION {[1..n -> TensorSet] : n \in 1..MaxTensors}

InitNorm ==
    /\ Quiet
    /\ cache = NoCache
    /\ norm \in [w1 : ParameterSets, w2 : ParameterSets, called : {FALSE},
                 out : {NoNorm.out}]

\* self.w_norm(w1, w2), lines 38-44
WNormCall ==
    /\ ~norm.called
    /\ norm' = [norm EXCEPT !.called = TRUE, !.out = w_norm(norm.w1, norm.w2)]
    /\ UNCHANGED <<trainVars, cache>>

NextNorm == WNormCall

SpecNorm == InitNorm /\ [][NextNorm]_vars

\* ------------------------------------------------------- the dataset cache
\* A file of the cache directory is "absent" or has a content; "empty" is the
\* content of a file of zero bytes.
Contents == {"empty", "iris_bytes", "linear_bytes", "local_bytes", "junk"}

\* hashlib.sha256(content).hexdigest(): one digest per content
hexdigest(content) ==
    CASE content = "empty"        -> "e3b0c442"
      [] content = "iris_bytes"   -> "92cae857"
      [] content = "linear_bytes" -> "bf269b26"
      [] content = "local_bytes"  -> "10ca1f11"
      [] OTHER                    -> "0bad0bad"

\* secretflow.utils.hash.sha256sum(filepath): the SHA-256 hex digest of the
\* content of an existing file
sha256sum(content) == hexdigest(content)

\* _DATASETS, two of its entries
DATASETS ==
    [n \in {"iris", "linear"} |->
       IF n = "iris"
       THEN [filename |-> "iris.csv", url |-> "https://iris", sha256 |-> "92cae857"]
       ELSE [filename |-> "linear.csv", url |-> "https://linear", sha256 |-> "bf269b26"]]

\* a _Dataset without download url, as _get_dataset may be handed
LocalDataset == [filename |-> "local.csv", url |-> "", sha256 |-> "10ca1f11"]

Filenames == {"iris.csv", "linear.csv", "local.csv"}

\* the names dataset() is called with
Names == {"iris", "IRIS", "linear", "Linear", "titanic", ""}

\* name.lower()
Lower(name) ==
    CASE name = "IRIS"   -> "iris"
      [] name = "Linear" -> "linear"
      [] OTHER           -> name

\* requests.get(url, stream=True).content: the request raises, or the server
\* answers with some content
Responses ==
    {[raised |-> TRUE, content |-> "absent"]} \cup
    {[raised |-> FALSE, content |-> c] : c \in Contents}

\* _download, lines 89-99: open(filepath, 'wb') truncates the file before the
\* content is fetched and checked; the content is written after the assert
_download(files, url, filepath, sha256, response) ==
    LET opened == [files EXCEPT ![filepath] = "empty"]
    IN  IF response.raised
        THEN [files |-> opened, error |-> "ConnectionError"]
        ELSE IF sha256 # hexdigest(response.content)
        THEN [files |-> opened, error |-> "AssertionError: sha256"]
        ELSE [files |-> [opened EXCEPT ![filepath] = response.content],
              error |-> ""]

Stale_Never(content, sha256) == FALSE

\* lines 106-109: the file exists and its digest is not the dataset's
Stale(content, sha256) == content # "absent" /\ sha256sum(content) # sha256

\* _get_dataset, lines 102-118
_get_dataset(files, ds, response) ==
    LET filepath == ds.filename
        stale    == Stale(files[filepath], ds.sha256)
        kept     == IF stale THEN [files EXCEPT ![filepath] = "absent"] ELSE files
        need_download == files[filepath] = "absent" \/ stale
    IN  IF ~need_download
        THEN [files |-> files, error |-> "", path |-> filepath,
              downloads |-> 0, removed |-> FALSE]
        ELSE IF ds.url = ""
        THEN [files |-> kept, error |-> "AssertionError: url", path |-> "",
              downloads |-> 0, removed |-> stale]
        ELSE LET d == _download(kept, ds.url, filepath, ds.sha256, response)
             IN  [files |-> d.files, error |-> d.error,
                  path |-> IF d.error = "" THEN filepath ELSE "",
                  downloads |-> 1, removed |-> stale]

\* what a dataset call leaves in cache
Outcome(ds, response, o) ==
    [files |-> o.files,
     got |-> [called |-> TRUE, dataset |-> ds, before |-> cache.files[ds.filename],
              response |-> response, error |-> o.error, path |-> o.path,
              downloads |-> o.downloads, removed |-> o.removed,
              previous |-> IF cache.got.dataset = ds THEN cache.got.error ELSE ""]]

InitData ==
    /\ Quiet
    /\ norm = NoNorm
    /\ cache \in [files : [Filenames -> Contents \cup {"absent"}], got : {NoCache.got}]

\* dataset(name), lines 121-133, for a name of _DATASETS in any letter case
DatasetCall(name, response) ==
    /\ name # ""
    /\ Lower(name) \in DOMAIN DATASETS
    /\ LET ds == DATASETS[Lower(name)]
       IN  cache' = Outcome(ds, response, _get_dataset(cache.files, ds, response))
    /\ UNCHANGED <<trainVars, norm>>

\* dataset(name) with an empty name (the assert at line 131) or a name that
\* is no key of _DATASETS (KeyError at line 133): the cache is not touched
DatasetRejected(name) ==
    /\ name = "" \/ Lower(name) \notin DOMAIN DATASETS
    /\ cache' = [cache EXCEPT
                   !.got = [NoCache.got EXCEPT
                              !.called = TRUE,
                              !.error = IF name = "" THEN "AssertionError: name"
                                        ELSE "KeyError"]]
    /\ UNCHANGED <<trainVars, norm>>

\* _get_dataset(dataset) called with a _Dataset that has no url
GetLocalDataset(response) ==
    /\ cache' = Outcome(LocalDataset, response,
                        _get_dataset(cache.files, LocalDataset, response))
    /\ UNCHANGED <<trainVars, norm>>

NextData ==
    \/ \E name \in Names, response \in Responses : DatasetCall(name, response)
    \/ \E name \in Names : DatasetRejected(name)
    \/ \E response \in Responses : GetLocalDataset(response)

SpecData == InitData /\ [][NextData]_vars

\* ------------------------------------------------------------ properties
\* train_step got past its entry and has not been returned from yet
Entered == pc \in {"loop", "done"} /\ run.before # <<>>

\* train_step has returned a (parameters, sample count) pair
Ok == pc = "done" /\ result.status = "ok"

\* the batches the call has pulled so far when every pulled batch was trained on
Consumed == [k \in 1..i |-> Unpack(run.entry.source[k])]

\* n local steps applied one after the other, each on what the one before left
RECURSIVE Replay(_, _, _, _)
Replay(trainable, anchor, mu, batches) ==
    IF batches = <<>> THEN trainable
    ELSE Replay(StepUpdate(anchor, mu, trainable, Head(batches)), anchor, mu,
                Tail(batches))

\* sum of the squared differences of two parameter sets of the same shapes
SquaredDistance(a, b) ==
    SumAll([k \in 1..Len(a) |->
              [j \in 1..Len(a[k]) |-> (a[k][j] - b[k][j]) * (a[k][j] - b[k][j])]])

\* what the privacy hook of a strategy may return for a parameter set
HookOutputs(dp, ws) ==
    CASE dp = "zero"  -> {ZerosLike(ws)}
      [] dp = "noise" -> {[k \in 1..Len(ws) |-> [j \in 1..Len(ws[k]) |-> ws[k][j] + n]] :
                             n \in NoiseSet}
      [] OTHER        -> {}

\* C1: a successful train_step returns as sample count exactly the sum of the
\* row counts of the batches it pulled during this call, one batch per step,
\* counted from 0 whatever earlier calls consumed.
C1_SampleCount ==
    Ok => /\ Len(run.pulled) = call.train_steps
          /\ result.num_sample = SumSeq(run.pulled)
          /\ run.pulled = [k \in 1..call.train_steps |-> Rows(run.entry.source[k])]

\* a second call that trains on the two-row batch after an earlier call
\* trained on the one-row batch
C1_Witness ==
    /\ Ok
    /\ run.entry.optimizer = 1
    /\ run.entry.source = <<DictBatch>>
    /\ call.train_steps = 1
    /\ result.num_sample = 2

\* C2: the privacy hook is invoked at most once per call, only to produce the
\* returned parameters, and its output is never written into the model: the
\* live parameters always equal those of a twin worker given the same calls
\* without a hook, and a zeroing hook returns zeros while the model keeps its
\* values.
C2_HookNeverWritten ==
    /\ model.attached => model.trainable = hist.plain
    /\ run.hookCalls <= 1
    /\ (pc = "loop") => run.hookCalls = 0
    /\ (Ok /\ HasHook(call.dp_strategy)) =>
          /\ run.hookCalls = 1
          /\ result.weights = run.hookOut
          /\ get_weights(model) = run.preHook
          /\ model.trainable = Replay(run.entry.trainable, run.anchor, call.mu, Consumed)
    /\ (Ok /\ call.dp_strategy = "zero") => result.weights = ZerosLike(get_weights(model))

\* a zeroing hook returned zeros for a model that trained to non-zero values
C2_Witness ==
    /\ Ok
    /\ call.dp_strategy = "zero"
    /\ run.updates >= 1
    /\ \A k \in 1..Len(model.trainable) : model.trainable[k][1] # 0
    /\ result.weights = ZerosLike(get_weights(model))

\* C3: with a strategy carrying the hook, a call that returns returns the
\* hook's output for the model's parameters, a hook that raises makes the
\* call fail with the hook's error after a single invocation, and a call that
\* failed for another reason never invoked the hook; the unprotected
\* parameters are never returned.
C3_FailClosed ==
    (pc = "done" /\ HasHook(call.dp_strategy)) =>
       /\ run.hookCalls <= 1
       /\ result.status = "ok" =>
             /\ run.hookCalls = 1
             /\ result.weights \in HookOutputs(call.dp_strategy, get_weights(model))
       /\ result.status = "error" =>
             \/ result = Raised("HookError") /\ run.hookCalls = 1
                  /\ call.dp_strategy = "fail"
             \/ result.error \in {"AssertionError", "ValueError", "StopIteration"}
                  /\ run.hookCalls = 0
       /\ (call.dp_strategy = "fail" /\ Entered /\ i = call.train_steps) =>
             result = Raised("HookError")

\* a hook raised after a step of training: the call failed with its error
C3_Witness ==
    /\ pc = "done"
    /\ call.dp_strategy = "fail"
    /\ run.updates >= 1
    /\ run.hookCalls = 1
    /\ result = Raised("HookError")

\* C4: train_step with train_steps = 0 pulls no batch, applies no optimizer
\* update, never fails for lack of batches, and returns sample count 0 and the
\* model's current parameters (the hook's output for them when a hook is set).
C4_ZeroSteps ==
    (Entered /\ call.train_steps = 0) =>
       /\ run.pulled = <<>>
       /\ train_set = run.entry.source
       /\ run.updates = 0
       /\ optimizer = run.entry.optimizer
       /\ model.trainable = run.entry.trainable
       /\ metric = run.entry.metric
       /\ result.error # "StopIteration"
       /\ Ok => /\ result.num_sample = 0
                /\ IF HasHook(call.dp_strategy)
                   THEN result.weights \in HookOutputs(call.dp_strategy, get_weights(model))
                   ELSE result.weights = get_weights(model)

\* a zero-step call on an exhausted source returned the received weights
C4_Witness ==
    /\ Ok
    /\ call.train_steps = 0
    /\ train_set = <<>>
    /\ ~call.weights.none
    /\ call.dp_strategy = "None"
    /\ result.weights = call.weights.val
    /\ result.num_sample = 0

\* C5: a call runs its local steps in order, one batch and one optimizer
\* update per step, never reading ahead, each step computed on the model the
\* step before left; a successful call has run exactly train_steps steps.
C5_SequentialSteps ==
    /\ (pc = "loop" \/ Ok) =>
          /\ i <= call.train_steps
          /\ Len(run.pulled) = i
          /\ run.updates = i
          /\ optimizer = run.entry.optimizer + i
          /\ train_set = SubSeq(run.entry.source, i + 1, Len(run.entry.source))
          /\ model.trainable =
                Replay(run.entry.trainable, run.anchor, call.mu, Consumed)
          /\ i >= 1 => run.before =
                Replay(run.entry.trainable, run.anchor, call.mu,
                       SubSeq(Consumed, 1, i - 1))
    /\ Ok => i = call.train_steps

\* a successful two-step call whose second step moved the model again
C5_Witness ==
    /\ Ok
    /\ call.train_steps = 2
    /\ i = 2
    /\ run.before # run.entry.trainable
    /\ model.trainable # run.before

\* C6 as claimed: when the source is exhausted at step k the call fails with
\* StopIteration, steps k..n do not run, the hook is not invoked, nothing is
\* returned, and the progress of the k-1 completed steps is lost (the model
\* and the optimizer are as they were when the loop was entered).
C6_Original ==
    run.starved =>
       /\ pc = "done"
       /\ result = Raised("StopIteration")
       /\ i < call.train_steps
       /\ run.updates = i
       /\ run.hookCalls = 0
       /\ logs = run.entry.logs
       /\ model.trainable = run.entry.trainable
       /\ optimizer = run.entry.optimizer

\* C6 (amended): when the source is exhausted at step k the call fails with
\* StopIteration, steps k..n do not run, the hook is not invoked, nothing is
\* returned and the logs are not updated; the k-1 completed steps are not
\* rolled back: their optimizer updates and metric updates stay applied to
\* the worker's model.
C6_StarvedSource ==
    run.starved =>
       /\ pc = "done"
       /\ result = Raised("StopIteration")
       /\ i < call.train_steps
       /\ train_set = <<>>
       /\ Len(run.pulled) = i
       /\ run.updates = i
       /\ run.hookCalls = 0
       /\ logs = run.entry.logs
       /\ epoch_logs = run.entry.epoch_logs
       /\ optimizer = run.entry.optimizer + i
       /\ model.trainable =
             Replay(run.entry.trainable, run.anchor, call.mu, Consumed)
       /\ metric.count = run.entry.metric.count + SumSeq(run.pulled)

\* the source ran dry at the second step, after a first step moved the model
C6_Witness ==
    /\ run.starved
    /\ call.train_steps = 2
    /\ i = 1
    /\ model.trainable # run.entry.trainable
    /\ result = Raised("StopIteration")

\* C7: the received weights are a read-only anchor: the caller's list keeps
\* the value it had at entry through the whole call, and the proximal term of
\* every step is the squared distance between that value and the live
\* parameters the preceding steps of the call left.
C7_AnchorReadOnly ==
    Entered =>
       /\ call.weights = run.anchor
       /\ (i >= 1 /\ ~run.anchor.none /\ run.updates = i) =>
             /\ run.before = Replay(run.entry.trainable, run.anchor, call.mu,
                                    SubSeq(Consumed, 1, i - 1))
             /\ loss.proximal = SquaredDistance(run.anchor.val, run.before)
             /\ loss.total = loss.base + (call.mu \div 2) * loss.proximal

\* the second step of a call measured a drift from the received weights
C7_Witness ==
    /\ Entered
    /\ ~run.anchor.none
    /\ call.mu = 2
    /\ i = 2
    /\ run.before # run.anchor.val
    /\ loss.proximal > 0
    /\ call.weights = run.anchor

\* C8: with weights = None no proximal penalty is added at any step whatever
\* mu is: the loss is the base loss, and the loss and the updated parameters
\* are those a call with mu = 0 computes on the same model state and batch,
\* for any anchor of the model's shapes.
C8_NoneIsMuZero ==
    (Entered /\ i >= 1 /\ run.updates = i) =>
       LET b == Consumed[i]
       IN  /\ run.anchor.none =>
                /\ loss.proximal = 0
                /\ loss.total = loss.base
                /\ loss.base = BaseLoss(b, Predict(run.before, b.x))
                /\ \A a \in {ZerosLike(run.before), IndexLike(run.before)} :
                      /\ StepLoss(Some(a), 0, run.before, b).total = loss.total
                      /\ StepUpdate(Some(a), 0, run.before, b) = model.trainable
           /\ call.mu = 0 => loss.total = loss.base

\* a step with weights = None and mu = 2 on a batch with a non-zero loss
C8_Witness ==
    /\ Entered
    /\ i >= 1
    /\ run.updates = i
    /\ run.anchor.none
    /\ call.mu = 2
    /\ loss.base > 0
    /\ model.trainable # run.before

\* C9 as claimed: after a successful call the worker retains the snapshot
\* finalized by this call and the snapshot finalized by the previous call.
C9_Original ==
    (Ok /\ ~run.entry.logs.none) =>
       /\ Snapshot(metric) \in {logs, epoch_logs}
       /\ run.entry.logs \in {logs, epoch_logs}

\* C9 (amended): after a successful call both retained log fields, logs and
\* epoch_logs, hold the snapshot finalized by this call; the previous call's
\* snapshot is overwritten, so one generation is kept.
C9_LogsRetained ==
    Ok => /\ logs = Snapshot(metric)
          /\ epoch_logs = logs
          /\ ~logs.none

\* a second successful call finalized a snapshot other than the first one's
C9_Witness ==
    /\ Ok
    /\ ~run.entry.logs.none
    /\ run.entry.logs # logs
    /\ epoch_logs = logs

\* C10 as claimed: the metric accumulator is reset at the start of every
\* call, so the finalized metrics are those of this call's batches alone.
C10_Original ==
    Ok => logs = Snapshot(run.metric)

\* C10 (amended): train_step never resets the metric accumulator: during a
\* call it is the accumulator found at entry plus this call's batches, and
\* the finalized metrics are those of every batch any call of the worker has
\* trained on so far.
C10_MetricsAccumulate ==
    /\ Entered =>
          /\ metric.total = run.entry.metric.total + run.metric.total
          /\ metric.count = run.entry.metric.count + run.metric.count
          /\ metric = hist.metric
    /\ Ok => logs = Snapshot(hist.metric)

\* a call finalized metrics that include an earlier call's batch
C10_Witness ==
    /\ Ok
    /\ run.entry.metric.count > 0
    /\ run.metric.count > 0
    /\ logs # Snapshot(run.metric)

\* C11: w_norm fails whenever its two parameter sets differ in the number of
\* tensors or in the shape of the tensors at some index; it never broadcasts
\* one tensor against the other to produce a value.
C11_ShapeMismatchFails ==
    (/\ norm.called
     /\ \/ Len(norm.w1) # Len(norm.w2)
        \/ \E k \in 1..Len(norm.w1) : Len(norm.w1[k]) # Len(norm.w2[k]))
    => ~norm.out.ok

\* the last dataset call returned a path
GotPath == cache.got.called /\ cache.got.error = ""

\* the digest of a content, written out independently of the code's hashing
DigestOf(content) ==
    CASE content = "empty"        -> "e3b0c442"
      [] content = "iris_bytes"   -> "92cae857"
      [] content = "linear_bytes" -> "bf269b26"
      [] content = "local_bytes"  -> "10ca1f11"
      [] content = "junk"         -> "0bad0bad"

\* C12: over any sequence of dataset calls on one cache, a call returns a
\* path only when the file at that path exists and has the dataset's digest;
\* a cached file with another digest is removed and downloaded again, never
\* returned; a download whose content has another digest ends in an error,
\* with no path returned and the content not stored.
C12_ReturnedFileVerified ==
    LET g    == cache.got
        file == cache.files[g.dataset.filename]
    IN  (g.called /\ g.dataset.filename # "") =>
          /\ g.error = "" <=> g.path # ""
          /\ g.error = "" =>
                /\ g.path = g.dataset.filename
                /\ file # "absent"
                /\ DigestOf(file) = g.dataset.sha256
          /\ (g.before # "absent" /\ DigestOf(g.before) # g.dataset.sha256) =>
                /\ g.removed
                /\ g.dataset.url # "" => g.downloads = 1
                /\ g.error = "" => file = g.response.content
                /\ g.error # "" => file \in {"absent", "empty"}
          /\ (g.downloads = 1 /\ ~g.response.raised
                /\ DigestOf(g.response.content) # g.dataset.sha256) =>
                /\ g.error = "AssertionError: sha256"
                /\ file # g.response.content \/ file = "empty"
          /\ (g.before # "absent" /\ DigestOf(g.before) = g.dataset.sha256) =>
                /\ g.error = ""
                /\ g.downloads = 0
                /\ file = g.before

\* a call right after a download of the same dataset failed its checksum
\* assertion found the zero-byte file that download left, removed it,
\* downloaded again and returned the verified file
C12_Witness ==
    /\ GotPath
    /\ cache.got.previous = "AssertionError: sha256"
    /\ cache.got.before = "empty"
    /\ cache.got.removed
    /\ cache.got.downloads = 1
    /\ cache.files[cache.got.dataset.filename] = "iris_bytes"
====
